---- MODULE Spec2Model ----
(***************************************************************************)
(* Model of src/main.py: the interactive deep-research pipeline            *)
(* (main -> research_pipeline -> handle_clarification, show_citations).    *)
(*                                                                         *)
(* Text is modelled as a sequence of one-character strings, so that        *)
(* str.strip, str.lower, str.join and f-string concatenation are computed  *)
(* character by character.                                                 *)
(***************************************************************************)
EXTENDS Integers, Sequences, FiniteSets

VARIABLES
    pc,           \* position of the single thread of control
    queryInput,   \* the raw line read at the topic prompt
    query,        \* main's local `query` (line 154)
    pquery,       \* research_pipeline's local `query` (lines 128, 137)
    verdict,      \* triage_result.content.needs_clarification, "none" before triage returns
    questions,    \* handle_clarification's local `questions`
    answers,      \* handle_clarification's local `answers`
    typed,        \* raw lines returned by input("> ") in this invocation of handle_clarification
    retval,       \* value computed by handle_clarification's return statement
    instructions, \* research_pipeline's local `instructions`
    result,       \* the research result object
    out,          \* what has been printed, in order (one tag per print call)
    sources,      \* what show_citations printed: its count and its lines
    saveInput,    \* the raw line read at the save prompt
    file,         \* the report file on disk
    fileWrites,   \* number of completed f.write calls
    inflight,     \* backend calls issued to a worker thread and not yet completed
    calls,        \* backend calls issued so far, with their argument
    reads,        \* prompts answered by input(), in order
    raisedAt      \* the step that raised an exception, "none" if none did

vars == <<pc, queryInput, query, pquery, verdict, questions, answers, typed, retval, instructions,
          result, out, sources, saveInput, file, fileWrites, inflight, calls, reads,
          raisedAt>>

(***************************************************************************)
(* Bounds of the model.                                                    *)
(***************************************************************************)
MaxQuestions == 2  \* longest question list the clarification backend returns
MaxCites == 2      \* longest citation / annotation list of a research result

(***************************************************************************)
(* Text helpers.                                                           *)
(***************************************************************************)
Whitespace == {" ", "\t", "\n", "\r"}

RECURSIVE LStrip(_)
LStrip(s) ==
    IF s # <<>> /\ Head(s) \in Whitespace THEN LStrip(Tail(s)) ELSE s

RECURSIVE RStrip(_)
RStrip(s) ==
    IF s # <<>> /\ s[Len(s)] \in Whitespace THEN RStrip(SubSeq(s, 1, Len(s) - 1)) ELSE s

\* str.strip()
Strip(s) == RStrip(LStrip(s))

LowerChar(c) ==
    CASE c = "N" -> "n"
      [] c = "Y" -> "y"
      [] c = "O" -> "o"
      [] OTHER   -> c

\* str.lower()
Lower(s) == [i \in 1..Len(s) |-> LowerChar(s[i])]

\* sep.join(parts)
RECURSIVE Join(_, _)
Join(parts, sep) ==
    IF parts = <<>> THEN <<>>
    ELSE IF Len(parts) = 1 THEN parts[1]
    ELSE parts[1] \o sep \o Join(Tail(parts), sep)

NL == <<"\n">>
COLON_SP == <<":", " ">>
CONTEXT_SEP == <<"\n", "\n", "C", "o", "n", "t", "e", "x", "t", ":", "\n">>
REPORT_HEAD == <<"#", " ", "R", "e", "s", "e", "a", "r", "c", "h", " ",
                 "R", "e", "s", "u", "l", "t", "s", "\n", "\n",
                 "*", "*", "Q", "u", "e", "r", "y", ":", "*", "*", " ">>

(***************************************************************************)
(* Inputs: what the user may type and what the backend may return.         *)
(***************************************************************************)
\* lines typed at the topic prompt
QueryInputs == {<<>>, <<" ">>, <<"q">>, <<" ", "q", " ", "r", " ">>}

\* lines typed at a clarification prompt
AnswerInputs == {<<>>, <<" ">>, <<"x">>, <<" ", "y", " ">>}

\* lines typed at the save prompt
SaveInputs == {<<>>, <<"n">>, <<"N">>, <<" ", "n">>, <<"N", " ">>, <<"y">>, <<"n", "o">>}

\* ClarifyResponse.questions : List[str]
QuestionTexts == {<<"A">>, <<"B">>}
RECURSIVE ListsUpTo(_, _)
ListsUpTo(items, n) ==
    IF n = 0 THEN {<<>>}
    ELSE LET shorter == ListsUpTo(items, n - 1)
         IN  shorter \cup {Append(l, x) : l \in shorter, x \in items}
QuestionLists == ListsUpTo(QuestionTexts, MaxQuestions)

\* InstructionResponse.instructions : str
InstructionTexts == {<<"i">>}

\* An attribute the object does not have.
Missing == "<missing>"

\* A citation record; each of its attributes may be missing.
TopE(t, u) == [title |-> t, url |-> u, type |-> Missing]
AnnE(t, u, ty) == [title |-> t, url |-> u, type |-> ty]

\* entries of a top-level citation list
TopEntries == {TopE("T1", "U"), TopE("T2", "U"), TopE(Missing, "U"), TopE("T1", Missing)}

\* entries of a nested annotation list
AnnEntries == {AnnE("T1", "U", "url_citation"), AnnE(Missing, "U", "url_citation"),
               AnnE("T1", Missing, "url_citation"), AnnE("T1", "U", "other"),
               AnnE("T1", "U", Missing)}

NoAttr == [kind |-> "absent", items |-> <<>>]
NoneAttr == [kind |-> "None", items |-> <<>>]
ListAttr(l) == [kind |-> "list", items |-> l]

AttrValues(entries) == {NoAttr, NoneAttr} \cup {ListAttr(l) : l \in ListsUpTo(entries, MaxCites)}

ReportBody == <<"r">>

\* A research result: `content` may be missing; `citations` and
\* `content.annotations` may be missing, None or a list.
ResultOf(c, cit, ann) == [content |-> c, body |-> ReportBody, citations |-> cit, annotations |-> ann]

AllResults ==
    {ResultOf("present", cit, ann) : cit \in AttrValues(TopEntries), ann \in AttrValues(AnnEntries)}
    \cup {ResultOf("absent", cit, NoAttr) : cit \in AttrValues(TopEntries)}

\* results the research backend returns in a pipeline run
PipelineResults ==
    { ResultOf("absent", NoAttr, NoAttr),
      ResultOf("present", NoAttr, NoAttr),
      ResultOf("present", ListAttr(<<TopE("T1", "U")>>), NoAttr),
      ResultOf("present", ListAttr(<<TopE(Missing, "U")>>), NoAttr),
      ResultOf("present", NoneAttr,
               ListAttr(<<AnnE(Missing, "U", "url_citation"), AnnE("T1", "U", "other")>>)) }

NoResult == ResultOf("absent", NoAttr, NoAttr)

(***************************************************************************)
(* show_citations: the citation pairs of a result (lines 95-100).          *)
(***************************************************************************)
\* [(c.title, c.url) for c in result.citations if hasattr(c, 'url')]:
\* c.title is read without a default, so an entry that has a url and no
\* title raises AttributeError.
RECURSIVE TopPairs(_)
TopPairs(items) ==
    IF items = <<>> THEN [raised |-> FALSE, pairs |-> <<>>]
    ELSE LET c == Head(items)
             rest == TopPairs(Tail(items))
         IN  IF c.url = Missing THEN rest
             ELSE IF c.title = Missing THEN [raised |-> TRUE, pairs |-> <<>>]
             ELSE IF rest.raised THEN rest
             ELSE [raised |-> FALSE, pairs |-> <<(<<c.title, c.url>>)>> \o rest.pairs]

\* getattr(a, name, default)
GetAttr(a, name, default) == IF a[name] = Missing THEN default ELSE a[name]

\* [(getattr(a,'title','Source'), getattr(a,'url','')) for a in (annotations or [])
\*  if getattr(a,'type',None) == 'url_citation']
RECURSIVE AnnPairs(_)
AnnPairs(items) ==
    IF items = <<>> THEN <<>>
    ELSE LET a == Head(items)
         IN  IF GetAttr(a, "type", "None") = "url_citation"
             THEN <<(<<GetAttr(a, "title", "Source"), GetAttr(a, "url", "")>>)>> \o AnnPairs(Tail(items))
             ELSE AnnPairs(Tail(items))

\* line 96 without the truthiness test: an empty list still counts as a citation list
HasTopCitations_AnyList(r) == r.citations.kind = "list"

\* hasattr(result, 'citations') and result.citations
HasTopCitations(r) == r.citations.kind = "list" /\ r.citations.items # <<>>

\* hasattr(result, 'content') and hasattr(result.content, 'annotations')
HasAnnotations(r) == r.content = "present" /\ r.annotations.kind # "absent"

CitationOutcome(r) ==
    IF HasTopCitations(r) THEN TopPairs(r.citations.items)
    ELSE IF HasAnnotations(r) THEN [raised |-> FALSE, pairs |-> AnnPairs(r.annotations.items)]
    ELSE [raised |-> FALSE, pairs |-> <<>>]

PlaceholderLine == <<"Research completed with web search capabilities">>

\* lines 102-106: the header with the count, one line per pair, or the placeholder
SourcesBlock(pairs) ==
    [printed |-> TRUE, count |-> Len(pairs),
     lines |-> IF pairs = <<>> THEN <<PlaceholderLine>> ELSE pairs]

NoSources == [printed |-> FALSE, count |-> 0, lines |-> <<>>]

(***************************************************************************)
(* handle_clarification: the value it returns (line 126).                  *)
(***************************************************************************)
AnswerEntry(q, ans) == q \o COLON_SP \o ans

\* the conditional of line 126 dropped: the Context block is always appended
ClarifiedQuery_Always(q, recorded) == q \o CONTEXT_SEP \o Join(recorded, NL)

ClarifiedQuery(q, recorded) ==
    IF recorded # <<>> THEN q \o CONTEXT_SEP \o Join(recorded, NL) ELSE q

(***************************************************************************)
(* main: the save decision (line 168) and the report text (line 173).      *)
(***************************************************************************)
\* line 168 without .strip()
WantsSave_NoStrip(line) == Lower(line) # <<"n">>

WantsSave(line) == Lower(Strip(line)) # <<"n">>

\* research_pipeline's rebinding of `query` leaking into the report
ReportText_Enriched(q, r) == REPORT_HEAD \o pquery \o <<"\n", "\n">> \o r.body

ReportText(q, r) == REPORT_HEAD \o q \o <<"\n", "\n">> \o r.body

NoFile == [exists |-> FALSE, content |-> <<>>]

(***************************************************************************)
(* The state after main has printed its banner (line 152).                 *)
(***************************************************************************)
Init ==
    /\ pc = "read_query"
    /\ queryInput = <<>>
    /\ query = <<>>
    /\ pquery = <<>>
    /\ verdict = "none"
    /\ questions = <<>>
    /\ answers = <<>>
    /\ typed = <<>>
    /\ retval = <<>>
    /\ instructions = <<>>
    /\ result = NoResult
    /\ out = <<"banner">>
    /\ sources = NoSources
    /\ saveInput = <<>>
    /\ file = NoFile
    /\ fileWrites = 0
    /\ inflight = {}
    /\ calls = <<>>
    /\ reads = <<>>
    /\ raisedAt = "none"

(***************************************************************************)
(* Building blocks of the actions.                                         *)
(***************************************************************************)
\* await asyncio.to_thread(agents[stage].run, arg): the call is handed to a
\* worker thread and the coroutine is suspended until it completes.
Issue(stage, arg) ==
    /\ inflight' = inflight \cup {stage}
    /\ calls' = Append(calls, [stage |-> stage, arg |-> arg])

\* the call is not awaited: the coroutine goes on while the worker still runs
Complete_NotAwaited(stage) == inflight' = inflight

Complete(stage) == inflight' = inflight \ {stage}

\* a stage that catches its own exception and lets the pipeline go on to the display
Raise_Caught(step) ==
    /\ raisedAt' = step
    /\ pc' = "display"

\* An exception leaves research_pipeline and handle_clarification, which
\* have no handler, and reaches the except clause of main (line 176).
Raise(step) ==
    /\ raisedAt' = step
    /\ pc' = "except"

Emit(tags) == out' = out \o tags

\* line 154 without .strip(): a whitespace-only topic enters the pipeline
ReadQuery_NoStrip ==
    /\ pc = "read_query"
    /\ \E line \in QueryInputs :
        /\ queryInput' = line
        /\ query' = line
        /\ reads' = Append(reads, "topic")
        /\ IF line = <<>>
           THEN pc' = "done" /\ pquery' = pquery
           ELSE pc' = "triage_issue" /\ pquery' = line
    /\ UNCHANGED <<verdict, questions, answers, typed, retval, instructions, result, out,
                   sources, saveInput, file, fileWrites, inflight, calls, raisedAt>>

(***************************************************************************)
(* main, line 154: read the topic; an empty topic ends the run.            *)
(***************************************************************************)
ReadQuery ==
    /\ pc = "read_query"
    /\ \E line \in QueryInputs :
        /\ queryInput' = line
        /\ query' = Strip(line)
        /\ reads' = Append(reads, "topic")
        /\ IF Strip(line) = <<>>
           THEN pc' = "done" /\ pquery' = pquery
           ELSE pc' = "triage_issue" /\ pquery' = Strip(line)
    /\ UNCHANGED <<verdict, questions, answers, typed, retval, instructions, result, out,
                   sources, saveInput, file, fileWrites, inflight, calls, raisedAt>>

(***************************************************************************)
(* research_pipeline, lines 130-134: triage.                               *)
(***************************************************************************)
IssueTriage ==
    /\ pc = "triage_issue"
    /\ Emit(<<"deep_research", "analyzing">>)
    /\ Issue("triage", pquery)
    /\ pc' = "triage_await"
    /\ UNCHANGED <<queryInput, query, pquery, verdict, questions, answers, typed, retval,
                   instructions, result, sources, saveInput, file, fileWrites, reads, raisedAt>>

\* the branch of line 136 taken whatever the verdict
AfterTriage_Always(v) == "clarify_issue"

\* line 136: the branch on needs_clarification
AfterTriage(v) == IF v = "true" THEN "clarify_issue" ELSE "instruction_issue"

TriageReturns ==
    /\ pc = "triage_await"
    /\ "triage" \in inflight
    /\ Complete("triage")
    /\ \/ /\ Raise("triage")
          /\ UNCHANGED verdict
       \/ \E v \in {"true", "false"} :
            /\ verdict' = v
            /\ pc' = AfterTriage(v)
            /\ UNCHANGED raisedAt
    /\ UNCHANGED <<queryInput, query, pquery, questions, answers, typed, retval, instructions,
                   result, out, sources, saveInput, file, fileWrites, calls, reads>>

(***************************************************************************)
(* handle_clarification, lines 108-126.                                    *)
(***************************************************************************)
IssueClarify ==
    /\ pc = "clarify_issue"
    /\ Emit(<<"getting_clarifications">>)
    /\ Issue("clarify", pquery)
    /\ pc' = "clarify_await"
    /\ UNCHANGED <<queryInput, query, pquery, verdict, questions, answers, typed, retval,
                   instructions, result, sources, saveInput, file, fileWrites, reads, raisedAt>>

\* lines 111-118
ClarifyReturns ==
    /\ pc = "clarify_await"
    /\ "clarify" \in inflight
    /\ Complete("clarify")
    /\ \/ /\ Raise("clarify")
          /\ UNCHANGED <<questions, retval, out>>
       \/ \E qs \in QuestionLists :
            /\ questions' = qs
            /\ IF qs = <<>>
               THEN /\ retval' = pquery
                    /\ pc' = "clarify_return"
                    /\ UNCHANGED out
               ELSE /\ Emit(<<"provide_context">>)
                    /\ pc' = "clarify_ask"
                    /\ UNCHANGED retval
            /\ UNCHANGED raisedAt
    /\ UNCHANGED <<queryInput, query, pquery, verdict, answers, typed, instructions,
                   result, sources, saveInput, file, fileWrites, calls, reads>>

\* lines 119-123: one iteration of the loop over the questions
ReadAnswer ==
    /\ pc = "clarify_ask"
    /\ Len(typed) < Len(questions)
    /\ \E line \in AnswerInputs :
        LET q == questions[Len(typed) + 1]
            ans == Strip(line)
        IN  /\ typed' = Append(typed, line)
            /\ reads' = Append(reads, "answer")
            /\ IF ans # <<>>
               THEN /\ answers' = Append(answers, AnswerEntry(q, ans))
                    /\ Emit(<<"question", "echo">>)
               ELSE /\ answers' = answers
                    /\ Emit(<<"question">>)
    /\ UNCHANGED <<pc, queryInput, query, pquery, verdict, questions, retval, instructions,
                   result, sources, saveInput, file, fileWrites, inflight, calls, raisedAt>>

\* lines 125-126: the loop is over; compute the value to return
FinishClarification ==
    /\ pc = "clarify_ask"
    /\ Len(typed) = Len(questions)
    /\ Emit(<<"got_clarifications">>)
    /\ retval' = ClarifiedQuery(pquery, answers)
    /\ pc' = "clarify_return"
    /\ UNCHANGED <<queryInput, query, pquery, verdict, questions, answers, typed, instructions,
                   result, sources, saveInput, file, fileWrites, inflight, calls, reads,
                   raisedAt>>

\* research_pipeline, line 137: query = await handle_clarification(query);
\* the frame of handle_clarification is gone.
ClarificationReturns ==
    /\ pc = "clarify_return"
    /\ pquery' = retval
    /\ questions' = <<>>
    /\ answers' = <<>>
    /\ typed' = <<>>
    /\ retval' = <<>>
    /\ pc' = "instruction_issue"
    /\ UNCHANGED <<queryInput, query, verdict, instructions, result, out, sources, saveInput,
                   file, fileWrites, inflight, calls, reads, raisedAt>>

(***************************************************************************)
(* research_pipeline, lines 140-148: instruction expansion and research.   *)
(***************************************************************************)
IssueInstruction ==
    /\ pc = "instruction_issue"
    /\ Emit(<<"creating_instructions">>)
    /\ Issue("instruction", pquery)
    /\ pc' = "instruction_await"
    /\ UNCHANGED <<queryInput, query, pquery, verdict, questions, answers, typed, retval,
                   instructions, result, sources, saveInput, file, fileWrites, reads, raisedAt>>

InstructionReturns ==
    /\ pc = "instruction_await"
    /\ "instruction" \in inflight
    /\ Complete("instruction")
    /\ \/ /\ Raise("instruction")
          /\ UNCHANGED instructions
       \/ \E text \in InstructionTexts :
            /\ instructions' = text
            /\ pc' = "research_issue"
            /\ UNCHANGED raisedAt
    /\ UNCHANGED <<queryInput, query, pquery, verdict, questions, answers, typed, retval,
                   result, out, sources, saveInput, file, fileWrites, calls, reads>>

IssueResearch ==
    /\ pc = "research_issue"
    /\ Emit(<<"status">>)
    /\ Issue("research", instructions)
    /\ pc' = "research_await"
    /\ UNCHANGED <<queryInput, query, pquery, verdict, questions, answers, typed, retval,
                   instructions, result, sources, saveInput, file, fileWrites, reads, raisedAt>>

\* lines 146-148 and 158: the result reaches main
ResearchReturns ==
    /\ pc = "research_await"
    /\ "research" \in inflight
    /\ Complete("research")
    /\ \/ /\ Raise("research")
          /\ UNCHANGED result
       \/ \E r \in PipelineResults :
            /\ result' = r
            /\ pc' = "display"
            /\ UNCHANGED raisedAt
    /\ UNCHANGED <<queryInput, query, pquery, verdict, questions, answers, typed, retval,
                   instructions, out, sources, saveInput, file, fileWrites, calls, reads>>

(***************************************************************************)
(* main, lines 160-177: display, citations, save, error handler.           *)
(***************************************************************************)
\* lines 160-164: result.content is read at line 163, after the heading
DisplayResults ==
    /\ pc = "display"
    /\ IF result.content = "present"
       THEN /\ Emit(<<"rule", "results_heading", "rule", "report_body", "rule">>)
            /\ pc' = "citations"
            /\ UNCHANGED raisedAt
       ELSE /\ Emit(<<"rule", "results_heading", "rule">>)
            /\ Raise("display")
    /\ UNCHANGED <<queryInput, query, pquery, verdict, questions, answers, typed, retval,
                   instructions, result, sources, saveInput, file, fileWrites, inflight,
                   calls, reads>>

\* line 166 and show_citations, lines 93-106
ShowCitations ==
    /\ pc = "citations"
    /\ LET outcome == CitationOutcome(result)
       IN  IF outcome.raised
           THEN /\ Raise("citations")
                /\ UNCHANGED <<sources, out>>
           ELSE /\ sources' = SourcesBlock(outcome.pairs)
                /\ Emit(<<"sources">>)
                /\ pc' = "save_prompt"
                /\ UNCHANGED raisedAt
    /\ UNCHANGED <<queryInput, query, pquery, verdict, questions, answers, typed, retval,
                   instructions, result, saveInput, file, fileWrites, inflight, calls, reads>>

\* line 168
ReadSave ==
    /\ pc = "save_prompt"
    /\ \E line \in SaveInputs :
        /\ saveInput' = line
        /\ reads' = Append(reads, "save")
        /\ pc' = IF WantsSave(line) THEN "save_write" ELSE "done"
    /\ UNCHANGED <<queryInput, query, pquery, verdict, questions, answers, typed, retval,
                   instructions, result, out, sources, file, fileWrites, inflight, calls,
                   raisedAt>>

\* lines 169-174 with a failure raised after the report was written
SaveReport_FailsAfterWrite ==
    /\ pc = "save_write"
    /\ file' = [exists |-> TRUE, content |-> ReportText(query, result)]
    /\ fileWrites' = fileWrites + 1
    /\ Raise("save")
    /\ UNCHANGED <<queryInput, query, pquery, verdict, questions, answers, typed, retval,
                   instructions, result, out, sources, saveInput, inflight, calls, reads>>

\* lines 169-174: os.makedirs, open and f.write may each raise OSError;
\* open(filename, 'w') creates or truncates the file before anything is written.
SaveReport ==
    /\ pc = "save_write"
    /\ \/ /\ Raise("save")
          /\ UNCHANGED <<file, fileWrites, out>>
       \/ /\ file' = [exists |-> TRUE, content |-> <<>>]
          /\ Raise("save")
          /\ UNCHANGED <<fileWrites, out>>
       \/ /\ file' = [exists |-> TRUE, content |-> ReportText(query, result)]
          /\ fileWrites' = fileWrites + 1
          /\ Emit(<<"saved">>)
          /\ pc' = "done"
          /\ UNCHANGED raisedAt
    /\ UNCHANGED <<queryInput, query, pquery, verdict, questions, answers, typed, retval,
                   instructions, result, sources, saveInput, inflight, calls, reads>>

\* lines 176-177
HandleError ==
    /\ pc = "except"
    /\ Emit(<<"error">>)
    /\ pc' = "done"
    /\ UNCHANGED <<queryInput, query, pquery, verdict, questions, answers, typed, retval,
                   instructions, result, sources, saveInput, file, fileWrites, inflight,
                   calls, reads, raisedAt>>

Next ==
    \/ ReadQuery
    \/ IssueTriage
    \/ TriageReturns
    \/ IssueClarify
    \/ ClarifyReturns
    \/ ReadAnswer
    \/ FinishClarification
    \/ ClarificationReturns
    \/ IssueInstruction
    \/ InstructionReturns
    \/ IssueResearch
    \/ ResearchReturns
    \/ DisplayResults
    \/ ShowCitations
    \/ ReadSave
    \/ SaveReport
    \/ HandleError

Spec == Init /\ [][Next]_vars

(***************************************************************************)
(* show_citations called on a result of any shape (lines 93-106).          *)
(***************************************************************************)
InitCite ==
    /\ pc = "citations"
    /\ result \in AllResults
    /\ queryInput = <<>>
    /\ query = <<>>
    /\ pquery = <<>>
    /\ verdict = "none"
    /\ questions = <<>>
    /\ answers = <<>>
    /\ typed = <<>>
    /\ retval = <<>>
    /\ instructions = <<>>
    /\ out = <<>>
    /\ sources = NoSources
    /\ saveInput = <<>>
    /\ file = NoFile
    /\ fileWrites = 0
    /\ inflight = {}
    /\ calls = <<>>
    /\ reads = <<>>
    /\ raisedAt = "none"

NextCite == ShowCitations

SpecCite == InitCite /\ [][NextCite]_vars

(***************************************************************************)
(* Vocabulary of the properties, stated without the operators above.       *)
(***************************************************************************)
Blank(s) == \A i \in 1..Len(s) : s[i] \in Whitespace

\* s without its leading and trailing whitespace
Trimmed(s) ==
    IF Blank(s) THEN <<>>
    ELSE LET solid == {i \in 1..Len(s) : s[i] \notin Whitespace}
             first == CHOOSE i \in solid : \A j \in solid : i <= j
             last == CHOOSE i \in solid : \A j \in solid : j <= i
         IN  [k \in 1..(last - first + 1) |-> s[first + k - 1]]

Count(x, seq) == Cardinality({i \in 1..Len(seq) : seq[i] = x})

Occurs(x, seq) == \E i \in 1..Len(seq) : seq[i] = x

Stages(cs) == [i \in 1..Len(cs) |-> cs[i].stage]

IsPrefix(a, b) == Len(a) <= Len(b) /\ \A i \in 1..Len(a) : a[i] = b[i]

BackendStages == {"triage", "clarify", "instruction", "research"}

(***************************************************************************)
(* C1.  handle_clarification: with N questions of which K got an answer    *)
(* that is not blank, the value returned is the query it was given,        *)
(* followed, when K >= 1, by "\n\nContext:\n" and the K entries            *)
(* "<question>: <answer>" of the answered questions, in question order,    *)
(* separated by newlines; when K = 0 (no question included) it is the      *)
(* query itself.  Every question is asked exactly once.                    *)
(***************************************************************************)
Answered(ty) == {i \in 1..Len(ty) : ~Blank(ty[i])}

\* the entries of the answered questions from the i-th on, each but the
\* first one written preceded by a newline
RECURSIVE ContextLines(_, _, _, _)
ContextLines(qs, ty, i, first) ==
    IF i > Len(qs) THEN <<>>
    ELSE IF i \in Answered(ty)
         THEN (IF first THEN <<>> ELSE <<"\n">>)
              \o qs[i] \o <<":", " ">> \o Trimmed(ty[i])
              \o ContextLines(qs, ty, i + 1, FALSE)
         ELSE ContextLines(qs, ty, i + 1, first)

C1_EnrichedQuery ==
    pc = "clarify_return" =>
        /\ Len(typed) = Len(questions)
        /\ Len(answers) = Cardinality(Answered(typed))
        /\ IF Answered(typed) # {}
           THEN retval = pquery \o <<"\n", "\n", "C", "o", "n", "t", "e", "x", "t", ":", "\n">>
                                \o ContextLines(questions, typed, 1, TRUE)
           ELSE retval = pquery

\* two questions, the first skipped with a blank line, the second answered
C1_Witness ==
    /\ pc = "clarify_return"
    /\ Len(questions) = 2
    /\ typed = <<(<<" ">>), (<<" ", "y", " ">>)>>
    /\ Len(answers) = 1

(***************************************************************************)
(* C2.  research_pipeline: the clarification stage is invoked iff the      *)
(* triage verdict is true; triage is invoked exactly once and never after  *)
(* clarification; when the verdict is false the text passed to the         *)
(* instruction stage is the original query.                                *)
(***************************************************************************)
C2_ClarifyIffVerdict ==
    /\ Count("triage", Stages(calls)) <= 1
    /\ (pc \notin {"read_query", "triage_issue"} /\ query # <<>>)
           => Count("triage", Stages(calls)) = 1
    /\ Count("clarify", Stages(calls)) <= 1
    /\ Occurs("clarify", Stages(calls)) => verdict = "true"
    /\ (verdict = "true" /\ pc # "clarify_issue") => Occurs("clarify", Stages(calls))
    /\ \A i, j \in 1..Len(calls) :
           (calls[i].stage = "clarify" /\ calls[j].stage = "triage") => j < i
    /\ \A i \in 1..Len(calls) :
           (calls[i].stage = "instruction" /\ verdict = "false") => calls[i].arg = query

\* the verdict was false and the instruction stage has been called
C2_Witness ==
    /\ verdict = "false"
    /\ Occurs("instruction", Stages(calls))
    /\ ~Occurs("clarify", Stages(calls))

(***************************************************************************)
(* C3.  When the backend call of a stage raises, the exception reaches     *)
(* the handler of main without being caught on the way: exactly one Error  *)
(* line is printed, no backend call follows, no results or sources block   *)
(* is printed, the save prompt is not shown and no file is written.        *)
(***************************************************************************)
C3_BackendFailure ==
    raisedAt \in BackendStages =>
        /\ pc \in {"except", "done"}
        /\ calls[Len(calls)].stage = raisedAt
        /\ inflight = {}
        /\ ~Occurs("results_heading", out)
        /\ ~Occurs("report_body", out)
        /\ ~Occurs("sources", out)
        /\ ~sources.printed
        /\ ~Occurs("save", reads)
        /\ file = NoFile
        /\ fileWrites = 0
        /\ Count("error", out) = (IF pc = "done" THEN 1 ELSE 0)

\* the research call raised and the run is over
C3_Witness ==
    /\ raisedAt = "research"
    /\ pc = "done"
    /\ Occurs("error", out)

(***************************************************************************)
(* C6.  A topic that is empty or only whitespace ends the run at once: no  *)
(* backend call, no further read, nothing printed after the banner, no     *)
(* Error line, no file.                                                    *)
(***************************************************************************)
C6_EmptyQuery ==
    (pc # "read_query" /\ Blank(queryInput)) =>
        /\ pc = "done"
        /\ calls = <<>>
        /\ inflight = {}
        /\ reads = <<"topic">>
        /\ out = <<"banner">>
        /\ ~sources.printed
        /\ file = NoFile
        /\ fileWrites = 0
        /\ raisedAt = "none"

\* a whitespace-only topic was typed
C6_Witness ==
    /\ pc = "done"
    /\ reads = <<"topic">>
    /\ queryInput = <<" ">>

(***************************************************************************)
(* C7.  At most one backend call is outstanding at any time; no input is   *)
(* read while a call is outstanding; the calls are issued in the order     *)
(* triage, clarify (if taken), instruction, research, each at most once,   *)
(* and each only when no earlier call is still outstanding.                *)
(***************************************************************************)
CallOrders == { <<"triage", "clarify", "instruction", "research">>,
                <<"triage", "instruction", "research">> }

C7_Sequential ==
    /\ [](/\ Cardinality(inflight) <= 1
          /\ \E order \in CallOrders : IsPrefix(Stages(calls), order))
    /\ [][/\ reads' # reads => (inflight = {} /\ inflight' = {})
          /\ calls' # calls => (inflight = {} /\ Len(calls') = Len(calls) + 1)]_vars

\* a finished run that made all four calls and read the topic, an answer
\* and the save confirmation
C7_Witness ==
    /\ pc = "done"
    /\ Stages(calls) = <<"triage", "clarify", "instruction", "research">>
    /\ Occurs("answer", reads)
    /\ Occurs("save", reads)
    /\ inflight = {}

(***************************************************************************)
(* C10.  A report file is written at most once, only after the research    *)
(* call succeeded and the results and sources blocks were printed, and it  *)
(* holds "# Research Results\n\n**Query:** <q>\n\n<report body>", <q>      *)
(* being the topic the user typed (as main holds it, stripped) and not     *)
(* the query enriched by the clarification.                                *)
(***************************************************************************)
C10_ReportFile ==
    /\ fileWrites <= 1
    /\ Count("saved", out) = fileWrites
    /\ file.exists =>
           /\ Occurs("research", Stages(calls))
           /\ raisedAt \notin BackendStages
           /\ Occurs("report_body", out)
           /\ Occurs("sources", out)
           /\ sources.printed
    /\ fileWrites = 1 =>
           /\ file.exists
           /\ file.content =
                <<"#", " ", "R", "e", "s", "e", "a", "r", "c", "h", " ",
                  "R", "e", "s", "u", "l", "t", "s", "\n", "\n",
                  "*", "*", "Q", "u", "e", "r", "y", ":", "*", "*", " ">>
                \o Trimmed(queryInput) \o <<"\n", "\n">> \o result.body
    /\ fileWrites = 0 => file.content = <<>>

\* a report saved in a run whose query was enriched by clarification answers
C10_Witness ==
    /\ fileWrites = 1
    /\ Occurs("clarify", Stages(calls))
    /\ \E i \in 1..Len(calls) :
           calls[i].stage = "instruction" /\ Len(calls[i].arg) > Len(query)

(***************************************************************************)
(* C4.  The save prompt.                                                   *)
(***************************************************************************)
Written == fileWrites = 1 /\ file.exists /\ file.content # <<>>

\* C4, as stated: after a successful research run, the empty line causes a
\* file to be written, "n" and "N" cause none, and every other line causes
\* one to be written.  (Stated for the runs in which nothing raised.)
C4_AsStated ==
    (Occurs("save", reads) /\ pc = "done" /\ raisedAt = "none") =>
        IF saveInput \in {<<"n">>, <<"N">>} THEN ~file.exists ELSE Written

\* C4, amended: a line that is "n" or "N" once its surrounding whitespace
\* is stripped causes no save and no file; every other line, the empty one
\* included, causes the save to be attempted, and the file is written
\* unless the save itself raises.
C4_SaveDecision ==
    Occurs("save", reads) =>
        IF Trimmed(saveInput) \in {<<"n">>, <<"N">>}
        THEN /\ pc = "done"
             /\ raisedAt = "none"
             /\ file = NoFile
             /\ fileWrites = 0
        ELSE /\ pc \in {"save_write", "except", "done"}
             /\ raisedAt \in {"none", "save"}
             /\ (pc = "done" /\ raisedAt = "none") => Written
             /\ Written => raisedAt = "none"

\* " n" was typed at the save prompt and the run ended without a file
C4_Witness ==
    /\ Occurs("save", reads)
    /\ saveInput = <<" ", "n">>
    /\ pc = "done"
    /\ ~file.exists

(***************************************************************************)
(* C8.  Runs that end with the Error line.                                 *)
(***************************************************************************)
\* C8, as stated: on every run that ends with the Error line no report has
\* been shown and no report file has been saved.  (Stated for the runs in
\* which show_citations did not raise.)
C8_AsStated ==
    (Occurs("error", out) /\ raisedAt # "citations") =>
        /\ ~Occurs("report_body", out)
        /\ ~file.exists

\* C8, amended: on every run that ends with the Error line no report has
\* been written to a file (a failed write leaves at most an empty file);
\* the report has not been shown when a backend stage or the result display
\* raised, and it has been shown when citation display or saving raised.
C8_ErrorRuns ==
    Occurs("error", out) =>
        /\ pc = "done"
        /\ fileWrites = 0
        /\ file.content = <<>>
        /\ ~Occurs("saved", out)
        /\ file.exists => raisedAt = "save"
        /\ Occurs("report_body", out) <=> raisedAt \in {"citations", "save"}
        /\ raisedAt \in BackendStages \cup {"display", "citations", "save"}

\* saving raised after the report was displayed
C8_Witness ==
    /\ Occurs("error", out)
    /\ raisedAt = "save"
    /\ Occurs("report_body", out)
    /\ Occurs("sources", out)

(***************************************************************************)
(* C5.  show_citations is total: for every result, whatever attributes     *)
(* its citation entries have, it prints the sources block and does not     *)
(* raise.                                                                  *)
(***************************************************************************)
C5_Total ==
    pc # "citations" =>
        /\ raisedAt = "none"
        /\ sources.printed
        /\ sources.count >= 0

(***************************************************************************)
(* C9.  The layered fallback of show_citations.                            *)
(***************************************************************************)
HasUrl(c) == c.url # Missing
IsUrlCitation(a) == a.type = "url_citation"

\* (title, url) of the entries that have a url, in order
TopExpected(items) ==
    LET kept == SelectSeq(items, HasUrl)
    IN  [i \in 1..Len(kept) |-> <<kept[i].title, kept[i].url>>]

\* (title or "Source", url or "") of the url_citation entries, in order
AnnExpected(items) ==
    LET kept == SelectSeq(items, IsUrlCitation)
    IN  [i \in 1..Len(kept) |->
            << IF kept[i].title = Missing THEN "Source" ELSE kept[i].title,
               IF kept[i].url = Missing THEN "" ELSE kept[i].url >>]

FromAnnotations(r) ==
    IF r.content = "present" /\ r.annotations.kind = "list"
    THEN AnnExpected(r.annotations.items)
    ELSE <<>>

Printed(expected) ==
    /\ sources.printed
    /\ sources.count = Len(expected)
    /\ sources.lines = IF expected = <<>>
                       THEN << <<"Research completed with web search capabilities">> >>
                       ELSE expected

\* C9, as stated: a top-level citation list, when the result has one, is the
\* source of the pairs, and the annotations are used only when it is absent;
\* the count printed is the number of pairs and the placeholder line stands
\* for no pairs.  (Stated for the calls that return.)
C9_AsStated ==
    (pc # "citations" /\ raisedAt = "none") =>
        IF result.citations.kind = "list"
        THEN Printed(TopExpected(result.citations.items))
        ELSE Printed(FromAnnotations(result))

\* C9, amended: a non-empty top-level citation list is the source of the
\* pairs: the (title, url) of its entries that have a url, in order, and an
\* entry with a url and no title makes show_citations raise before it
\* prints anything; when the top-level list is absent, None or empty, the
\* annotations are used: the entries of type url_citation, in order, with
\* "Source" for a missing title and "" for a missing url.  When it returns,
\* the count printed is the number of pairs, and the placeholder line
\* stands for no pairs.
C9_LayeredFallback ==
    pc # "citations" =>
        LET top == result.citations.items
            topUsed == result.citations.kind = "list" /\ Len(top) > 0
            broken == topUsed /\ \E i \in 1..Len(top) :
                                    top[i].url # Missing /\ top[i].title = Missing
        IN  IF broken
            THEN raisedAt = "citations" /\ ~sources.printed /\ out = <<>>
            ELSE /\ raisedAt = "none"
                 /\ out = <<"sources">>
                 /\ IF topUsed THEN Printed(TopExpected(top))
                               ELSE Printed(FromAnnotations(result))

\* an empty top-level list, and two pairs taken from the annotations
C9_Witness ==
    /\ pc = "save_prompt"
    /\ result.citations = ListAttr(<<>>)
    /\ sources.count = 2
    /\ sources.lines = << <<"Source", "U">>, <<"T1", "">> >>

====
